---- MODULE Spec2Model ----
(***************************************************************************)
(* A model of src/main.py: the local-server bootstrap                      *)
(* (start_ollama_if_needed and its two probes), the keyword guardrail      *)
(* (homework_guardrail) and the module-level program flow (bootstrap, then *)
(* main with its two routed requests).                                     *)
(*                                                                         *)
(* Time is counted in ticks of half a second, the poll interval of the     *)
(* bootstrap loop (time.sleep(0.5)).                                       *)
(***************************************************************************)
EXTENDS Integers, Sequences, FiniteSets, TLC

(***************************************************************************)
(* Bounds of the model.                                                    *)
(***************************************************************************)
\* largest wait_seconds a call is given
MaxWait == 1
\* the environment's clock stops advancing on its own after this many ticks
MaxTime == 2

(***************************************************************************)
(* Program constants.                                                      *)
(***************************************************************************)
\* ticks per second: time.sleep(0.5) is one tick
TicksPerSecond == 2
\* time.sleep(0.5), in ticks
SleepTicks == 1
\* wait_seconds: int = 1
DefaultWait == 1
\* 200 <= resp.status < 300
StatusLow == 200
StatusHigh == 300
\* the response of a health request that raised (no status was returned)
Raised == 0

\* the callers of start_ollama_if_needed
Callers == {1, 2}
\* the module-level call of line 68
ModuleCaller == 1

\* host: str = "127.0.0.1", port: int = 11434
DefaultTarget == <<"127.0.0.1", 11434>>
Targets == {DefaultTarget, <<"10.0.0.5", 8080>>}

\* wait_seconds a caller may pass (zero and negative included)
WaitChoices == (0 - 1)..MaxWait

\* what GET /api/tags can answer: a status, or Raised
Statuses == {199, 200, 299, 300}
Responses == Statuses \cup {Raised}

\* what Popen(["ollama", "serve"]) does: starts the process, raises
\* FileNotFoundError, or raises another OSError (e.g. PermissionError)
ExeStates == {"ok", "missing", "denied"}

VARIABLES
    \* ---- start_ollama_if_needed, per caller ----
    pc,         \* position of the call
    wait,       \* wait_seconds
    target,     \* <<host, port>>
    deadline,   \* deadline = time.time() + wait_seconds (ticks)
    fastObs,    \* what the fast-path probe (line 37) observed
    lastObs,    \* what the latest probe (line 37 or 59) observed
    popen,      \* outcome of the Popen call: "none" before it
    launches,   \* number of Popen calls made
    spawnedBy,  \* number of processes the call has spawned
    polls,      \* number of probes made in the poll loop
    pollAt,     \* the time.time() read by the loop test that admitted the latest poll
    sleeps,     \* number of time.sleep(0.5) calls
    wake,       \* when the current time.sleep(0.5) ends (ticks)
    err,        \* the exception the call raised, if any
    \* ---- the environment ----
    listening,  \* the port accepts TCP connections
    apiStatus,  \* what /api/tags answers while the port is open
    exe,        \* state of the 'ollama' executable
    now,        \* time.time() in ticks
    \* ---- the program (module level and main) ----
    mainPc,     \* position of the module / of main
    runnerCalls,\* number of Runner.run calls started
    outcome,    \* per request: "none", "final", "blocked", "failed"
    printed,    \* what main printed, in order
    reqInput,   \* per request: the text main passes to Runner.run
    verdict,    \* per request: what homework_guardrail returned for it
    cur,        \* the agent running the request in flight, NoAgent if none
    turn,       \* the request in flight: "none", "routing", "final", "failed"
    hops,       \* per request: handoffs made
    backendCalls, \* per request: backend (model) calls made
    \* ---- homework_guardrail ----
    gInput,     \* the input_data under evaluation
    gOut        \* the GuardrailFunctionOutput, or NoOutput

callVars == <<pc, wait, target, deadline, fastObs, lastObs, popen, launches,
              spawnedBy, polls, pollAt, sleeps, wake, err>>
envVars == <<listening, apiStatus, exe, now>>
progVars == <<mainPc, runnerCalls, outcome, printed, reqInput, verdict, cur,
              turn, hops, backendCalls>>
guardVars == <<gInput, gOut>>
vars == <<callVars, envVars, progVars, guardVars>>

(***************************************************************************)
(* The probes.                                                             *)
(***************************************************************************)
\* a probe that has not been made
NoObs == [done |-> FALSE, tcp |-> FALSE, asked |-> FALSE, status |-> Raised]

\* _is_port_open: create_connection succeeds iff the port accepts
IsPortOpen == listening

\* urlopen(base + "/api/tags"): the status, or an exception
UrlOpen == IF listening THEN apiStatus ELSE Raised

OllamaReadyNoUpper(resp) == resp # Raised /\ StatusLow <= resp
\* _ollama_ready: 200 <= resp.status < 300, False on any exception
OllamaReady(resp) == resp # Raised /\ StatusLow <= resp /\ resp < StatusHigh

ProbeReadyTcpOnly(o) == o.tcp
\* `_is_port_open(host, port) and _ollama_ready(base)` on an observation
ProbeReady(o) == o.tcp /\ o.asked /\ OllamaReady(o.status)

\* f"http://{host}:{port}"
Base(t) == <<"http://", t[1], ":", t[2]>>

(***************************************************************************)
(* start_ollama_if_needed, one action per step of the call.                *)
(***************************************************************************)
NoErr == [kind |-> "none", base |-> <<>>, wait |-> 0]
\* RuntimeError("Could not start 'ollama serve': ... not found in PATH ...")
NotFoundErr == [kind |-> "notfound", base |-> <<>>, wait |-> 0]
\* an OSError of Popen other than FileNotFoundError, propagated as it is
OsErr == [kind |-> "oserror", base |-> <<>>, wait |-> 0]
\* RuntimeError(f"Started 'ollama serve' but it did not become ready on
\* {base} within {wait_seconds}s.")
TimeoutErr(c) == [kind |-> "timeout", base |-> Base(target[c]), wait |-> wait[c]]

Terminal == {"returned", "raised"}

\* a step of the call touches neither the environment, the program nor the guardrail
CallFrame == UNCHANGED <<envVars, progVars, guardVars>>
\* a step of the environment touches nothing else
EnvFrame == UNCHANGED <<callVars, progVars, guardVars>>

\* the call is entered with its arguments
CallEnter(c, w, t) ==
    /\ pc[c] = "idle"
    /\ pc' = [pc EXCEPT ![c] = "fast_tcp"]
    /\ wait' = [wait EXCEPT ![c] = w]
    /\ target' = [target EXCEPT ![c] = t]
    /\ UNCHANGED <<deadline, fastObs, lastObs, popen, launches, spawnedBy,
                   polls, pollAt, sleeps, wake, err>>

\* a call made by a thread of its own
Call(c, w, t) == CallEnter(c, w, t) /\ CallFrame

AfterFastPathAlwaysLaunch(ready) == "launch"
\* line 37-38: `if ...: return`, else fall through to the launch
AfterFastPath(ready) == IF ready THEN "returned" ELSE "launch"

\* line 37, left operand: _is_port_open(host, port)
FastTcp(c) ==
    /\ CallFrame
    /\ pc[c] = "fast_tcp"
    /\ LET o == [done |-> TRUE, tcp |-> IsPortOpen, asked |-> FALSE,
                 status |-> Raised]
       IN /\ fastObs' = [fastObs EXCEPT ![c] = o]
          /\ lastObs' = [lastObs EXCEPT ![c] = o]
          /\ pc' = [pc EXCEPT ![c] =
                        IF o.tcp THEN "fast_http"
                        ELSE AfterFastPath(ProbeReady(o))]
    /\ UNCHANGED <<wait, target, deadline, popen, launches, spawnedBy, polls, pollAt,
                   sleeps, wake, err>>

\* line 37, right operand: _ollama_ready(base), evaluated only if the port is open
FastHttp(c) ==
    /\ CallFrame
    /\ pc[c] = "fast_http"
    /\ LET o == [fastObs[c] EXCEPT !.asked = TRUE, !.status = UrlOpen]
       IN /\ fastObs' = [fastObs EXCEPT ![c] = o]
          /\ lastObs' = [lastObs EXCEPT ![c] = o]
          /\ pc' = [pc EXCEPT ![c] = AfterFastPath(ProbeReady(o))]
    /\ UNCHANGED <<wait, target, deadline, popen, launches, spawnedBy, polls, pollAt,
                   sleeps, wake, err>>

AfterPopenSwallow(e) == "set_deadline"
\* lines 43-54: where the call goes after Popen
AfterPopen(e) == IF e = "ok" THEN "set_deadline" ELSE "raised"

\* lines 50-54: the exception raised after Popen, if any
ErrOfPopen(e) ==
    CASE e = "ok" -> NoErr
      [] e = "missing" -> NotFoundErr
      [] OTHER -> OsErr

\* lines 43-54: subprocess.Popen(["ollama", "serve"], ...)
Launch(c) ==
    /\ CallFrame
    /\ pc[c] = "launch"
    /\ popen' = [popen EXCEPT ![c] = exe]
    /\ launches' = [launches EXCEPT ![c] = @ + 1]
    /\ spawnedBy' = [spawnedBy EXCEPT ![c] = IF exe = "ok" THEN @ + 1 ELSE @]
    /\ err' = [err EXCEPT ![c] = IF AfterPopen(exe) = "raised"
                                  THEN ErrOfPopen(exe) ELSE @]
    /\ pc' = [pc EXCEPT ![c] = AfterPopen(exe)]
    /\ UNCHANGED <<wait, target, deadline, fastObs, lastObs, polls, pollAt, sleeps, wake>>

\* line 57: deadline = time.time() + wait_seconds
SetDeadline(c) ==
    /\ CallFrame
    /\ pc[c] = "set_deadline"
    /\ deadline' = [deadline EXCEPT ![c] = now + wait[c] * TicksPerSecond]
    /\ pc' = [pc EXCEPT ![c] = "loop_test"]
    /\ UNCHANGED <<wait, target, fastObs, lastObs, popen, launches, spawnedBy,
                   polls, pollAt, sleeps, wake, err>>

AfterLoopExitReturn == "returned"
\* lines 62-65: the `else` of the while loop raises the timeout error
AfterLoopExit == "raised"

LoopContinuesInclusive(t, d) == t <= d
\* line 58: time.time() < deadline
LoopContinues(t, d) == t < d

\* line 58 and lines 62-65: the loop test, and the else branch when it fails
LoopTest(c) ==
    /\ CallFrame
    /\ pc[c] = "loop_test"
    /\ IF LoopContinues(now, deadline[c])
       THEN /\ pc' = [pc EXCEPT ![c] = "poll_tcp"]
            /\ pollAt' = [pollAt EXCEPT ![c] = now]
            /\ err' = err
       ELSE /\ pc' = [pc EXCEPT ![c] = AfterLoopExit]
            /\ pollAt' = pollAt
            /\ err' = [err EXCEPT ![c] = IF AfterLoopExit = "raised"
                                          THEN TimeoutErr(c) ELSE @]
    /\ UNCHANGED <<wait, target, deadline, fastObs, lastObs, popen, launches,
                   spawnedBy, polls, sleeps, wake>>

AfterPollRelaunch(ready) == IF ready THEN "returned" ELSE "launch"
\* lines 59-61: `break` out of the loop (the function then returns), or sleep
AfterPoll(ready) == IF ready THEN "returned" ELSE "sleep"

\* line 59, left operand
PollTcp(c) ==
    /\ CallFrame
    /\ pc[c] = "poll_tcp"
    /\ polls' = [polls EXCEPT ![c] = @ + 1]
    /\ LET o == [done |-> TRUE, tcp |-> IsPortOpen, asked |-> FALSE,
                 status |-> Raised]
       IN /\ lastObs' = [lastObs EXCEPT ![c] = o]
          /\ pc' = [pc EXCEPT ![c] =
                        IF o.tcp THEN "poll_http" ELSE AfterPoll(ProbeReady(o))]
    /\ UNCHANGED <<wait, target, deadline, fastObs, popen, launches, spawnedBy,
                   pollAt, sleeps, wake, err>>

\* line 59, right operand
PollHttp(c) ==
    /\ CallFrame
    /\ pc[c] = "poll_http"
    /\ LET o == [lastObs[c] EXCEPT !.asked = TRUE, !.status = UrlOpen]
       IN /\ lastObs' = [lastObs EXCEPT ![c] = o]
          /\ pc' = [pc EXCEPT ![c] = AfterPoll(ProbeReady(o))]
    /\ UNCHANGED <<wait, target, deadline, fastObs, popen, launches, spawnedBy,
                   polls, pollAt, sleeps, wake, err>>

\* line 61: time.sleep(0.5) begins
Sleep(c) ==
    /\ CallFrame
    /\ pc[c] = "sleep"
    /\ sleeps' = [sleeps EXCEPT ![c] = @ + 1]
    /\ wake' = [wake EXCEPT ![c] = now + SleepTicks]
    /\ pc' = [pc EXCEPT ![c] = "sleeping"]
    /\ UNCHANGED <<wait, target, deadline, fastObs, lastObs, popen, launches,
                   spawnedBy, polls, pollAt, err>>

\* line 61: time.sleep(0.5) ends, once at least half a second has passed
Wake(c) ==
    /\ CallFrame
    /\ pc[c] = "sleeping"
    /\ now >= wake[c]
    /\ pc' = [pc EXCEPT ![c] = "loop_test"]
    /\ UNCHANGED <<wait, target, deadline, fastObs, lastObs, popen, launches,
                   spawnedBy, polls, pollAt, sleeps, wake, err>>

\* one step of the body of start_ollama_if_needed
CallStep(c) ==
    \/ FastTcp(c)
    \/ FastHttp(c)
    \/ Launch(c)
    \/ SetDeadline(c)
    \/ LoopTest(c)
    \/ PollTcp(c)
    \/ PollHttp(c)
    \/ Sleep(c)
    \/ Wake(c)

(***************************************************************************)
(* The environment: the clock, and the server behind (host, port).         *)
(***************************************************************************)
\* a sleeping caller is waiting for the clock
SomeoneSleeps == \E c \in Callers : pc[c] = "sleeping" /\ wake[c] > now

\* time passes
Tick ==
    /\ now < MaxTime \/ SomeoneSleeps
    /\ now' = now + 1
    /\ UNCHANGED <<listening, apiStatus, exe>>
    /\ EnvFrame

\* the server starts or stops listening, or its API changes its answer
EnvChange ==
    /\ listening' \in BOOLEAN
    /\ apiStatus' \in Responses
    /\ <<listening', apiStatus'>> # <<listening, apiStatus>>
    /\ UNCHANGED <<exe, now>>
    /\ EnvFrame

\* a spawned `ollama serve` binds the port; its API may not answer yet
ServerBinds ==
    /\ \E c \in Callers : spawnedBy[c] > 0
    /\ ~listening
    /\ listening' = TRUE
    /\ apiStatus' = Raised
    /\ UNCHANGED <<exe, now>>
    /\ EnvFrame

\* the API of the listening server goes live
ApiLive ==
    /\ listening
    /\ apiStatus = Raised
    /\ apiStatus' = StatusLow
    /\ UNCHANGED <<listening, exe, now>>
    /\ EnvFrame

(***************************************************************************)
(* Initial values.                                                         *)
(***************************************************************************)
InitCalls ==
    /\ pc = [c \in Callers |-> "idle"]
    /\ wait = [c \in Callers |-> DefaultWait]
    /\ target = [c \in Callers |-> DefaultTarget]
    /\ deadline = [c \in Callers |-> 0]
    /\ fastObs = [c \in Callers |-> NoObs]
    /\ lastObs = [c \in Callers |-> NoObs]
    /\ popen = [c \in Callers |-> "none"]
    /\ launches = [c \in Callers |-> 0]
    /\ spawnedBy = [c \in Callers |-> 0]
    /\ polls = [c \in Callers |-> 0]
    /\ pollAt = [c \in Callers |-> 0]
    /\ sleeps = [c \in Callers |-> 0]
    /\ wake = [c \in Callers |-> 0]
    /\ err = [c \in Callers |-> NoErr]

InitEnv ==
    /\ listening \in BOOLEAN
    /\ apiStatus \in Responses
    /\ exe \in ExeStates
    /\ now = 0

(***************************************************************************)
(* The agents (lines 84-138), in the order the module defines them.        *)
(***************************************************************************)
GuardrailAgent == "Guardrail check"
MathTutor == "Math Tutor"
HistoryTutor == "History Tutor"
LocalTutor == "Local Tutor"
TriageAgent == "Triage Agent"
NoAgent == "none"

\* lines 84, 91, 99, 106, 130: the order of definition
AgentOrder == <<GuardrailAgent, MathTutor, HistoryTutor, LocalTutor, TriageAgent>>
Agents == {AgentOrder[i] : i \in 1..Len(AgentOrder)}

HandoffsWithChain(a) ==
    IF a = TriageAgent THEN <<HistoryTutor, MathTutor, LocalTutor>>
    ELSE IF a = MathTutor THEN <<HistoryTutor>>
    ELSE <<>>
\* the handoffs= argument of each Agent(...): only line 133 gives one
HandoffsOf(a) ==
    IF a = TriageAgent THEN <<HistoryTutor, MathTutor, LocalTutor>> ELSE <<>>

\* the agents a may hand off to
HandoffTargets(a) == {HandoffsOf(a)[i] : i \in 1..Len(HandoffsOf(a))}

\* line 145: "who was the first president of the united states?"
Input1 ==
    <<"w", "h", "o", " ", "w", "a", "s", " ", "t", "h", "e", " ",
      "f", "i", "r", "s", "t", " ", "p", "r", "e", "s", "i", "d",
      "e", "n", "t", " ", "o", "f", " ", "t", "h", "e", " ", "u",
      "n", "i", "t", "e", "d", " ", "s", "t", "a", "t", "e", "s",
      "?">>
\* line 152: "What is the meaning of life?"
Input2 ==
    <<"W", "h", "a", "t", " ", "i", "s", " ", "t", "h", "e", " ",
      "m", "e", "a", "n", "i", "n", "g", " ", "o", "f", " ", "l",
      "i", "f", "e", "?">>
MainInputs == <<Input1, Input2>>
Requests == {1, 2}


\* the program state before any request, with the inputs main will pass
InitProgWith(inputs) ==
    /\ mainPc = "import"
    /\ runnerCalls = 0
    /\ outcome = <<"none", "none">>
    /\ printed = <<>>
    /\ reqInput = inputs
    /\ verdict = [i \in Requests |->
                     [output_info |-> [is_homework |-> FALSE, reasoning |-> <<>>],
                      tripwire_triggered |-> FALSE]]
    /\ cur = NoAgent
    /\ turn = "none"
    /\ hops = [i \in Requests |-> 0]
    /\ backendCalls = [i \in Requests |-> 0]

InitProg == InitProgWith(MainInputs)

InitGuard ==
    /\ gInput = [given |-> FALSE, isStr |-> TRUE, val |-> <<>>]
    /\ gOut = [output_info |-> [is_homework |-> FALSE, reasoning |-> <<>>],
               tripwire_triggered |-> FALSE]

(***************************************************************************)
(* SpecBoot: one call of start_ollama_if_needed with any arguments, in any *)
(* environment.                                                            *)
(***************************************************************************)
BootCall == \E w \in WaitChoices, t \in Targets : Call(ModuleCaller, w, t)

InitBoot == InitCalls /\ InitEnv /\ InitProg /\ InitGuard
NextBoot ==
    \/ BootCall
    \/ FastTcp(ModuleCaller)
    \/ FastHttp(ModuleCaller)
    \/ Launch(ModuleCaller)
    \/ SetDeadline(ModuleCaller)
    \/ LoopTest(ModuleCaller)
    \/ PollTcp(ModuleCaller)
    \/ PollHttp(ModuleCaller)
    \/ Sleep(ModuleCaller)
    \/ Wake(ModuleCaller)
    \/ Tick
    \/ EnvChange
SpecBoot == InitBoot /\ [][NextBoot]_vars

\* the same call under the scheduling the code has: the body of the call keeps
\* running (every probe has a timeout, so no step blocks), and time passes
SpecBootFair ==
    /\ InitBoot
    /\ [][NextBoot]_vars
    /\ WF_vars(CallStep(ModuleCaller))
    /\ WF_vars(Tick)

(***************************************************************************)
(* SpecConc: two threads call start_ollama_if_needed() at the same time    *)
(* with the default arguments, against a backend that is not running.      *)
(***************************************************************************)
ConcCall == \E c \in Callers : Call(c, DefaultWait, DefaultTarget)

InitConc ==
    /\ InitCalls
    /\ listening = FALSE
    /\ apiStatus = Raised
    /\ exe \in ExeStates
    /\ now = 0
    /\ InitProg
    /\ InitGuard

NextConc ==
    \/ ConcCall
    \/ \E c \in Callers : FastTcp(c)
    \/ \E c \in Callers : FastHttp(c)
    \/ \E c \in Callers : Launch(c)
    \/ \E c \in Callers : SetDeadline(c)
    \/ \E c \in Callers : LoopTest(c)
    \/ \E c \in Callers : PollTcp(c)
    \/ \E c \in Callers : PollHttp(c)
    \/ \E c \in Callers : Sleep(c)
    \/ \E c \in Callers : Wake(c)
    \/ Tick
    \/ ServerBinds
    \/ ApiLive
SpecConc == InitConc /\ [][NextConc]_vars

(***************************************************************************)
(* Properties of start_ollama_if_needed.                                   *)
(***************************************************************************)
\* an observation in which the TCP connect succeeded and the health request
\* answered with a status in [200,300)
SawReady(o) == o.done /\ o.tcp /\ o.asked /\ o.status \in 200..299

\* the call launched a process: its Popen succeeded
Launched(c) == popen[c] = "ok"

\* the call has gone through its launch step
PastLaunch(c) == pc[c] \notin {"idle", "fast_tcp", "fast_http", "launch"}

\* C3: start_ollama_if_needed returns normally only if its last readiness
\* probe (fast path or poll loop) saw both the TCP connect succeed and the
\* health request answer 2xx; an open port with a failing or non-2xx health
\* request never counts as ready.
C3_ReturnsOnlyWhenReady ==
    \A c \in Callers : pc[c] = "returned" => SawReady(lastObs[c])

\* a call that returned from the poll loop, after a poll that saw the port open
\* but the API not yet answering 2xx
C3_Witness ==
    /\ pc[ModuleCaller] = "returned"
    /\ polls[ModuleCaller] >= 2
    /\ sleeps[ModuleCaller] >= 1
    /\ lastObs[ModuleCaller].status = 299

\* C4: if the fast-path probe finds the backend listening and healthy, the
\* call returns without launching anything, polling or sleeping.
C4_FastPathNoSpawn ==
    \A c \in Callers :
        SawReady(fastObs[c]) =>
            /\ pc[c] = "returned"
            /\ popen[c] = "none"
            /\ launches[c] = 0
            /\ spawnedBy[c] = 0
            /\ polls[c] = 0
            /\ sleeps[c] = 0

\* a call that returned on the fast path
C4_Witness ==
    /\ SawReady(fastObs[ModuleCaller])
    /\ pc[ModuleCaller] = "returned"

\* C5: with no listener at the fast-path probe and a launchable executable,
\* the call spawns exactly one process (the poll loop never launches again),
\* and it returns as soon as a poll sees the backend ready; that poll was
\* admitted strictly before the deadline of the wait budget.
C5_SpawnsOnceAndReturnsWhenReady ==
    \A c \in Callers :
        (fastObs[c].done /\ ~fastObs[c].tcp /\ exe = "ok" /\ PastLaunch(c)) =>
            /\ popen[c] = "ok"
            /\ launches[c] = 1
            /\ spawnedBy[c] = 1
            /\ (polls[c] >= 1 /\ SawReady(lastObs[c]) => pc[c] = "returned")
            /\ (pc[c] = "returned" =>
                    /\ polls[c] >= 1
                    /\ SawReady(lastObs[c])
                    /\ pollAt[c] < deadline[c])

\* no listener at first, one process spawned, ready seen by a later poll
C5_Witness ==
    /\ fastObs[ModuleCaller].done
    /\ ~fastObs[ModuleCaller].tcp
    /\ Launched(ModuleCaller)
    /\ pc[ModuleCaller] = "returned"
    /\ polls[ModuleCaller] >= 2

\* C6: if Popen raises FileNotFoundError the call fails at once with the
\* executable-not-found error: no poll, no sleep, no process spawned, and the
\* launch is not tried again.
C6_NotFoundFailsImmediately ==
    \A c \in Callers :
        popen[c] = "missing" =>
            /\ pc[c] = "raised"
            /\ err[c] = NotFoundErr
            /\ launches[c] = 1
            /\ spawnedBy[c] = 0
            /\ polls[c] = 0
            /\ sleeps[c] = 0

\* a call whose launch found no executable, after a fast-path probe that saw
\* the port open but the API not ready
C6_Witness ==
    /\ popen[ModuleCaller] = "missing"
    /\ fastObs[ModuleCaller].tcp
    /\ pc[ModuleCaller] = "raised"

\* what a finished call looks like after a successful launch: either it
\* returned and its last poll saw the backend ready, or it raised the timeout
\* error, which names the target address and the budget, at or after the deadline
C7_EndsReadyOrTimeout ==
    \A c \in Callers :
        (Launched(c) /\ pc[c] \in Terminal) =>
            \/ /\ pc[c] = "returned"
               /\ polls[c] >= 1
               /\ SawReady(lastObs[c])
               /\ err[c] = NoErr
            \/ /\ pc[c] = "raised"
               /\ err[c] = [kind |-> "timeout",
                            base |-> <<"http://", target[c][1], ":", target[c][2]>>,
                            wait |-> wait[c]]
               /\ now >= deadline[c]
               /\ (polls[c] >= 1 => ~SawReady(lastObs[c]))

\* C7: after a successful launch the call polls until a poll sees the backend
\* ready (it returns) or the wait budget elapses (it raises the timeout error
\* naming the address and the budget); every call terminates.
C7_PollTerminates ==
    /\ []C7_EndsReadyOrTimeout
    /\ \A c \in Callers : (pc[c] # "idle") ~> (pc[c] \in Terminal)

\* a call that timed out after polling at least twice without seeing ready
C7_Witness ==
    /\ Launched(ModuleCaller)
    /\ pc[ModuleCaller] = "raised"
    /\ err[ModuleCaller].kind = "timeout"
    /\ polls[ModuleCaller] >= 2

\* C16: the call attempts a launch if and only if its fast-path probe is not
\* ready; a port that accepts connections while the health request fails
\* counts as not ready, so a new server process is spawned although a
\* listener already occupies the port.
C16_LaunchIffNotReady ==
    \A c \in Callers :
        /\ pc[c] = "launch" => ~SawReady(fastObs[c])
        /\ PastLaunch(c) =>
              /\ (launches[c] = 1 <=> ~SawReady(fastObs[c]))
              /\ (launches[c] = 0 <=> SawReady(fastObs[c]))
              /\ (fastObs[c].tcp /\ ~SawReady(fastObs[c]) /\ exe = "ok"
                    => spawnedBy[c] = 1)

\* a process was spawned after a fast-path probe that found the port open but
\* the health request not answering 2xx, and the port is still open
C16_Witness ==
    /\ fastObs[ModuleCaller].tcp
    /\ fastObs[ModuleCaller].asked
    /\ ~SawReady(fastObs[ModuleCaller])
    /\ spawnedBy[ModuleCaller] = 1
    /\ listening

\* the call ended by raising, and the kind of error it raised
RaisedKind(c, k) == pc[c] = "raised" /\ err[c].kind = k

\* C17: a timeout leaves exactly one spawned process behind, and the
\* only failure that leaves the process count unchanged is
\* executable-not-found.
C17_OnlyNotFoundLeavesCount ==
    \A c \in Callers :
        /\ RaisedKind(c, "timeout") => spawnedBy[c] = 1
        /\ (pc[c] = "raised" /\ spawnedBy[c] = 0) => err[c].kind = "notfound"

\* what a failed call leaves behind: one spawned process after a timeout,
\* none after an error of Popen itself (FileNotFoundError or another OSError)
C17_FailureLeaves ==
    \A c \in Callers :
        /\ RaisedKind(c, "timeout") => (spawnedBy[c] = 1 /\ launches[c] = 1)
        /\ pc[c] = "raised" =>
              (spawnedBy[c] = 0 <=> err[c].kind \in {"notfound", "oserror"})
        /\ RaisedKind(c, "notfound") => popen[c] = "missing"
        /\ RaisedKind(c, "oserror") => popen[c] = "denied"

\* what holds of the code: a timeout failure leaves exactly one process
\* spawned by the call, which the call never takes back; the failures that
\* leave the process count unchanged are the errors raised by Popen itself,
\* executable-not-found and any other OSError, which propagates uncaught.
TimeoutLeavesProcess ==
    /\ []C17_FailureLeaves
    /\ [][\A c \in Callers : spawnedBy'[c] >= spawnedBy[c]]_vars

\* a call that timed out with its process spawned and the backend still down
TimeoutLeavesProcessSeen ==
    /\ RaisedKind(ModuleCaller, "timeout")
    /\ spawnedBy[ModuleCaller] = 1
    /\ ~listening

\* C18: a poll is made only when the loop test read a time strictly before
\* the deadline, and readiness is not checked again after the last sleep once
\* the deadline has passed; with wait_seconds <= 0 a launched call makes no
\* poll and always ends in the timeout error, even if the backend is ready.
C18_PollOnlyBeforeDeadline ==
    \A c \in Callers :
        /\ polls[c] >= 1 => pollAt[c] < deadline[c]
        /\ pc[c] \in {"poll_tcp", "poll_http"} => pollAt[c] < deadline[c]
        /\ RaisedKind(c, "timeout") => polls[c] = sleeps[c]
        /\ (Launched(c) /\ wait[c] <= 0) =>
              /\ polls[c] = 0
              /\ sleeps[c] = 0
              /\ pc[c] \in {"set_deadline", "loop_test", "raised"}
              /\ (pc[c] \in Terminal => RaisedKind(c, "timeout"))

\* a launched call with wait_seconds = 0 that timed out without a poll while
\* the backend was listening and healthy
C18_Witness ==
    /\ Launched(ModuleCaller)
    /\ wait[ModuleCaller] = 0
    /\ RaisedKind(ModuleCaller, "timeout")
    /\ polls[ModuleCaller] = 0
    /\ listening
    /\ apiStatus = StatusLow

\* the processes spawned by all the calls together
TotalSpawned == spawnedBy[1] + spawnedBy[2]

\* C8: concurrent first calls against a backend that is not running spawn at
\* most one server process in total.
C8_AtMostOneSpawn == TotalSpawned <= 1

(***************************************************************************)
(* homework_guardrail.  A text is a sequence of one-character strings.     *)
(***************************************************************************)
\* the largest number of pieces an input is made of
MaxPieces == 2

UpperLetters == <<"A", "B", "C", "D", "E", "F", "G", "H", "I", "J", "K", "L", "M", "N", "O", "P", "Q", "R", "S", "T", "U", "V", "W", "X", "Y", "Z">>
LowerLetters == <<"a", "b", "c", "d", "e", "f", "g", "h", "i", "j", "k", "l", "m", "n", "o", "p", "q", "r", "s", "t", "u", "v", "w", "x", "y", "z">>

\* str.lower() on one character
LowerChar(ch) ==
    IF \E i \in 1..Len(UpperLetters) : UpperLetters[i] = ch
    THEN LowerLetters[CHOOSE i \in 1..Len(UpperLetters) : UpperLetters[i] = ch]
    ELSE ch

LowerNone(t) == t
\* line 117: text.lower()
Lower(t) == [i \in 1..Len(t) |-> LowerChar(t[i])]

\* lines 122, 124: `k in lower`, substring containment
Contains(hay, needle) ==
    \E i \in 0..(Len(hay) - Len(needle)) :
        SubSeq(hay, i + 1, i + Len(needle)) = needle

\* lines 118-121: keywords, in the declared order
Keywords == <<
    <<"h", "o", "m", "e", "w", "o", "r", "k">>,
    <<"a", "s", "s", "i", "g", "n", "m", "e", "n", "t">>,
    <<"p", "r", "o", "b", "l", "e", "m", " ", "s", "e", "t">>,
    <<"p", "s", "e", "t">>,
    <<"q", "u", "i", "z">>,
    <<"e", "x", "a", "m">>,
    <<"w", "o", "r", "k", "s", "h", "e", "e", "t">>,
    <<"t", "a", "k", "e", "-", "h", "o", "m", "e">>,
    <<"d", "u", "e">>,
    <<"q", "u", "e", "s", "t", "i", "o", "n", " ", "1">>,
    <<"q", "1">> >>

\* ", "
CommaSpace == <<",", " ">>
\* "keyword match: "
MatchPrefix == <<"k", "e", "y", "w", "o", "r", "d", " ", "m", "a", "t", "c", "h", ":", " ">>
\* "no homework-related keywords detected"
NoMatchText == <<"n", "o", " ", "h", "o", "m", "e", "w", "o", "r", "k", "-", "r", "e", "l", "a", "t", "e", "d", " ", "k", "e", "y", "w", "o", "r", "d", "s", " ", "d", "e", "t", "e", "c", "t", "e", "d">>

RECURSIVE Join(_, _)
\* sep.join(list)
Join(list, sep) ==
    IF Len(list) = 0 THEN <<>>
    ELSE IF Len(list) = 1 THEN list[1]
    ELSE list[1] \o sep \o Join(Tail(list), sep)

RECURSIVE ReprItems(_)
\* the items of str(list): each item quoted, separated by ", "
ReprItems(items) ==
    IF Len(items) = 0 THEN <<>>
    ELSE IF Len(items) = 1 THEN <<"'">> \o items[1] \o <<"'">>
    ELSE <<"'">> \o items[1] \o <<"'">> \o CommaSpace \o ReprItems(Tail(items))

\* line 116: input_data if isinstance(input_data, str) else str(input_data)
TextOf(input) ==
    IF input.isStr THEN input.val
    ELSE <<"[">> \o ReprItems(input.val) \o <<"]">>

\* line 122: any(k in lower for k in keywords)
IsHw(lower) == \E i \in 1..Len(Keywords) : Contains(lower, Keywords[i])

\* line 124: [k for k in keywords if k in lower]
Matched(lower) == SelectSeq(Keywords, LAMBDA k : Contains(lower, k))

ReasoningAlwaysList(lower) == MatchPrefix \o Join(Matched(lower), CommaSpace)
\* lines 123-126
Reasoning(lower) ==
    IF IsHw(lower) THEN MatchPrefix \o Join(Matched(lower), CommaSpace)
    ELSE NoMatchText

\* lines 114-128: the GuardrailFunctionOutput for an input
HomeworkGuardrail(input) ==
    LET lower == Lower(TextOf(input))
        final_output == [is_homework |-> IsHw(lower),
                         reasoning |-> Reasoning(lower)]
    IN [output_info |-> final_output,
        tripwire_triggered |-> final_output.is_homework]

\* the pieces the inputs are made of
Pieces == {
    <<"h", "o", "m", "e">>,
    <<"W", "O", "R", "K">>,
    <<"Q">>,
    <<"1">>,
    <<"q", "u", "e", "s", "t", "i", "o", "n", " ">>,
    <<"s", "u", "b", "d", "u", "e">>,
    <<"P", "S", "e", "t">>,
    <<"p", "r", "o", "b", "l", "e", "m">>,
    <<" ", "s", "e", "t">>,
    <<"e", "x", "a", "m">>,
    <<"x">>,
    <<"M", "y", " ">> }

RECURSIVE Flatten(_)
Flatten(ps) == IF Len(ps) = 0 THEN <<>> ELSE ps[1] \o Flatten(Tail(ps))

\* sequences of at most MaxPieces pieces
PieceSeqs == UNION {[1..n -> Pieces] : n \in 0..MaxPieces}

\* the inputs: a str, or a list of strs
GuardInputs ==
    {[isStr |-> TRUE, val |-> Flatten(ps)] : ps \in PieceSeqs}
    \cup {[isStr |-> FALSE, val |-> ps] : ps \in PieceSeqs}

NoInput == [given |-> FALSE, isStr |-> TRUE, val |-> <<>>]
NoOutput == [output_info |-> [is_homework |-> FALSE, reasoning |-> <<>>],
             tripwire_triggered |-> FALSE]

(***************************************************************************)
(* SpecGuard: homework_guardrail applied to any input.                     *)
(***************************************************************************)
\* the guardrail is handed an input
GuardCall(input) ==
    /\ gInput = NoInput
    /\ gOut = NoOutput
    /\ gInput' = [given |-> TRUE, isStr |-> input.isStr, val |-> input.val]
    /\ gOut' = gOut
    /\ UNCHANGED <<callVars, envVars, progVars>>

\* lines 114-128
GuardEvaluate ==
    /\ gInput.given
    /\ gOut = NoOutput
    /\ gOut' = HomeworkGuardrail(gInput)
    /\ gInput' = gInput
    /\ UNCHANGED <<callVars, envVars, progVars>>

InitGuardSpec ==
    /\ InitCalls
    /\ listening = TRUE
    /\ apiStatus = StatusLow
    /\ exe = "ok"
    /\ now = 0
    /\ InitProg
    /\ InitGuard
NextGuard ==
    \/ \E input \in GuardInputs : GuardCall(input)
    \/ GuardEvaluate
SpecGuard == InitGuardSpec /\ [][NextGuard]_vars

(***************************************************************************)
(* Properties of homework_guardrail.                                       *)
(***************************************************************************)
\* the guardrail has produced its output for gInput
Evaluated == gInput.given /\ gOut # NoOutput

\* two characters are the same letter, whatever their case
SameLetter(a, b) ==
    \/ a = b
    \/ \E i \in 1..Len(UpperLetters) :
           {a, b} = {UpperLetters[i], LowerLetters[i]}

\* phrase k occurs in text t at some position, case-insensitively (inside a
\* larger word included)
Occurs(t, k) ==
    \E start \in 1..Len(t) :
        /\ start + Len(k) - 1 <= Len(t)
        /\ \A j \in 1..Len(k) : SameLetter(t[start + j - 1], k[j])

\* the phrases occurring in t, in the declared order of the keyword list
OccurringPhrases(t) == SelectSeq(Keywords, LAMBDA k : Occurs(t, k))

\* C9: for every input containing at least one trigger phrase as a
\* case-insensitive substring, tripwire_triggered and is_homework are true and
\* the reasoning is "keyword match: " followed by exactly the phrases that
\* occur, comma-joined in the declared order.
C9_MatchBlocksAndListsPhrases ==
    (Evaluated /\ \E i \in 1..Len(Keywords) : Occurs(TextOf(gInput), Keywords[i])) =>
        /\ gOut.tripwire_triggered = TRUE
        /\ gOut.output_info.is_homework = TRUE
        /\ gOut.output_info.reasoning =
               MatchPrefix \o Join(OccurringPhrases(TextOf(gInput)), CommaSpace)

\* the input "subduePSet": two phrases occur, one inside a larger word and one
\* in mixed case, in the opposite order of the keyword list
C9_Witness ==
    /\ Evaluated
    /\ gInput.isStr
    /\ gInput.val = <<"s", "u", "b", "d", "u", "e", "P", "S", "e", "t">>
    /\ gOut.tripwire_triggered
    /\ gOut.output_info.reasoning =
           MatchPrefix \o <<"p", "s", "e", "t">> \o CommaSpace \o <<"d", "u", "e">>

\* C10: for every input containing none of the trigger phrases,
\* tripwire_triggered and is_homework are false and the reasoning is the fixed
\* no-match text; so the tripwire is triggered iff some phrase occurs.
C10_NoMatchPasses ==
    Evaluated =>
        /\ (~(\E i \in 1..Len(Keywords) : Occurs(TextOf(gInput), Keywords[i])) =>
                /\ gOut.tripwire_triggered = FALSE
                /\ gOut.output_info.is_homework = FALSE
                /\ gOut.output_info.reasoning = NoMatchText)
        /\ (gOut.tripwire_triggered <=>
                \E i \in 1..Len(Keywords) : Occurs(TextOf(gInput), Keywords[i]))

\* an evaluated input with letters of phrases in it, but no phrase
C10_Witness ==
    /\ Evaluated
    /\ gInput.isStr
    /\ gInput.val = <<"h", "o", "m", "e", "1">>
    /\ gOut.tripwire_triggered = FALSE
    /\ gOut.output_info.reasoning = NoMatchText

(***************************************************************************)
(* Spec: the program.  Importing the module calls start_ollama_if_needed() *)
(* with its defaults (line 68), configures the client and defines the      *)
(* agents (lines 70-138); run as a script it then runs main (lines         *)
(* 157-158), which routes two requests one after the other.                *)
(***************************************************************************)
\* Runner.run(triage_agent, text), as the spec describes the runner: the
\* tripwire outcome when the input guardrail of the entry agent blocks,
\* otherwise a final output or a failure of a backend call
RunnerOutcomes(v) ==
    IF v.tripwire_triggered THEN {"blocked"} ELSE {"final", "failed"}

AfterStartIgnoreError(p) == "configured"
\* line 68: an exception of the module-level call ends the import; only a
\* normal return goes on to lines 70-138
AfterStart(p) == IF p = "returned" THEN "configured" ELSE "crashed"

\* the state of the requests, which the module-level steps leave alone
routeVars == <<runnerCalls, outcome, printed, reqInput, verdict, cur, turn,
               hops, backendCalls>>

\* line 68: start_ollama_if_needed()
ModuleCall ==
    /\ mainPc = "import"
    /\ CallEnter(ModuleCaller, DefaultWait, DefaultTarget)
    /\ mainPc' = "bootstrap"
    /\ UNCHANGED <<routeVars, envVars, guardVars>>

\* line 68 returns or raises
ModuleCallEnds ==
    /\ mainPc = "bootstrap"
    /\ pc[ModuleCaller] \in Terminal
    /\ mainPc' = AfterStart(pc[ModuleCaller])
    /\ UNCHANGED <<routeVars, callVars, envVars, guardVars>>

\* lines 70-138 and 157-158: the client and the agents are set up, main starts
EnterMain ==
    /\ mainPc = "configured"
    /\ mainPc' = "run1"
    /\ UNCHANGED <<routeVars, callVars, envVars, guardVars>>

\* where main is while request i is awaited, and where it goes after it
Awaiting(i) == IF i = 1 THEN "await1" ELSE "await2"
Running(i) == IF i = 1 THEN "run1" ELSE "run2"

AfterRequestNoExcept(i, o) ==
    IF o \in {"failed", "blocked"} THEN "crashed"
    ELSE IF i = 1 THEN "run2" ELSE "done"
AfterRequestCatchAll(i, o) == IF i = 1 THEN "run2" ELSE "done"
AfterRequestStopOnBlock(i, o) ==
    IF o = "failed" THEN "crashed"
    ELSE IF i = 1 /\ o = "final" THEN "run2" ELSE "done"
\* lines 144-155: a final output or a tripwire is printed and main goes on;
\* any other exception leaves main
AfterRequest(i, o) ==
    IF o = "failed" THEN "crashed"
    ELSE IF i = 1 THEN "run2" ELSE "done"

\* lines 146, 148, 153, 155: what main prints for a request that ended with o;
\* the tripwire exception it prints carries the guardrail's output
PrintedFor(i, o) ==
    [req |-> i, kind |-> o,
     verdict |-> IF o = "blocked" THEN verdict[i] ELSE NoOutput]

\* lines 145, 152: await Runner.run(triage_agent, ...) is started
RunnerStart(i) ==
    /\ mainPc = Running(i)
    /\ runnerCalls' = runnerCalls + 1
    /\ cur' = TriageAgent
    /\ turn' = "routing"
    /\ mainPc' = Awaiting(i)
    /\ UNCHANGED <<outcome, printed, reqInput, verdict, hops, backendCalls,
                   callVars, envVars, guardVars>>

\* lines 134-136: the runner calls the input guardrail of the entry agent
GuardrailRuns(i) ==
    /\ mainPc = Awaiting(i)
    /\ verdict[i] = NoOutput
    /\ verdict' = [verdict EXCEPT ![i] =
                       HomeworkGuardrail([isStr |-> TRUE, val |-> reqInput[i]])]
    /\ UNCHANGED <<mainPc, runnerCalls, outcome, printed, reqInput, cur, turn,
                   hops, backendCalls, callVars, envVars, guardVars>>

\* the runner calls the backend for the current agent; the answer is final,
\* a handoff to one of the agent's handoff targets, or a failure.  Whether
\* this happens before, while or after the guardrail runs is the runner's
\* business and is left open.
BackendTurn(i) ==
    /\ mainPc = Awaiting(i)
    /\ turn = "routing"
    /\ backendCalls' = [backendCalls EXCEPT ![i] = @ + 1]
    /\ \/ /\ turn' \in {"final", "failed"}
          /\ UNCHANGED <<cur, hops>>
       \/ /\ \E t \in HandoffTargets(cur) : cur' = t
          /\ hops' = [hops EXCEPT ![i] = @ + 1]
          /\ turn' = turn
    /\ UNCHANGED <<mainPc, runnerCalls, outcome, printed, reqInput, verdict,
                   callVars, envVars, guardVars>>

\* lines 145-148, 152-155: Runner.run ends; its result or the tripwire is printed
RunnerEnd(i) ==
    /\ mainPc = Awaiting(i)
    /\ verdict[i] # NoOutput
    /\ \E o \in RunnerOutcomes(verdict[i]) :
          /\ o # "blocked" => o = turn
          /\ outcome' = [outcome EXCEPT ![i] = o]
          /\ printed' = IF AfterRequest(i, o) = "crashed" THEN printed
                        ELSE Append(printed, PrintedFor(i, o))
          /\ mainPc' = AfterRequest(i, o)
    /\ cur' = NoAgent
    /\ turn' = "none"
    /\ UNCHANGED <<runnerCalls, reqInput, verdict, hops, backendCalls,
                   callVars, envVars, guardVars>>

Init == InitCalls /\ InitEnv /\ InitProg /\ InitGuard
Next ==
    \/ ModuleCall
    \/ FastTcp(ModuleCaller)
    \/ FastHttp(ModuleCaller)
    \/ Launch(ModuleCaller)
    \/ SetDeadline(ModuleCaller)
    \/ LoopTest(ModuleCaller)
    \/ PollTcp(ModuleCaller)
    \/ PollHttp(ModuleCaller)
    \/ Sleep(ModuleCaller)
    \/ Wake(ModuleCaller)
    \/ ModuleCallEnds
    \/ EnterMain
    \/ \E i \in Requests : RunnerStart(i)
    \/ \E i \in Requests : GuardrailRuns(i)
    \/ \E i \in Requests : BackendTurn(i)
    \/ \E i \in Requests : RunnerEnd(i)
    \/ Tick
    \/ EnvChange
Spec == Init /\ [][Next]_vars

(***************************************************************************)
(* SpecRoute: main after a bootstrap that returned on the fast path, with  *)
(* any of the route inputs as the texts of its two requests.               *)
(***************************************************************************)
\* "Can you help me with question 1 of my homework?"
Input3 ==
    <<"C", "a", "n", " ", "y", "o", "u", " ", "h", "e", "l", "p",
      " ", "m", "e", " ", "w", "i", "t", "h", " ", "q", "u", "e",
      "s", "t", "i", "o", "n", " ", "1", " ", "o", "f", " ", "m",
      "y", " ", "h", "o", "m", "e", "w", "o", "r", "k", "?">>
\* the texts a request may carry
RouteInputs == {Input1, Input2, Input3}

ReadyObs == [done |-> TRUE, tcp |-> TRUE, asked |-> TRUE, status |-> StatusLow]

InitRoute ==
    /\ pc = [c \in Callers |-> IF c = ModuleCaller THEN "returned" ELSE "idle"]
    /\ wait = [c \in Callers |-> DefaultWait]
    /\ target = [c \in Callers |-> DefaultTarget]
    /\ deadline = [c \in Callers |-> 0]
    /\ fastObs = [c \in Callers |-> IF c = ModuleCaller THEN ReadyObs ELSE NoObs]
    /\ lastObs = [c \in Callers |-> IF c = ModuleCaller THEN ReadyObs ELSE NoObs]
    /\ popen = [c \in Callers |-> "none"]
    /\ launches = [c \in Callers |-> 0]
    /\ spawnedBy = [c \in Callers |-> 0]
    /\ polls = [c \in Callers |-> 0]
    /\ pollAt = [c \in Callers |-> 0]
    /\ sleeps = [c \in Callers |-> 0]
    /\ wake = [c \in Callers |-> 0]
    /\ err = [c \in Callers |-> NoErr]
    /\ listening = TRUE
    /\ apiStatus = StatusLow
    /\ exe \in ExeStates
    /\ now = 0
    /\ mainPc = "configured"
    /\ runnerCalls = 0
    /\ outcome = <<"none", "none">>
    /\ printed = <<>>
    /\ reqInput \in [Requests -> RouteInputs]
    /\ verdict = [i \in Requests |-> NoOutput]
    /\ cur = NoAgent
    /\ turn = "none"
    /\ hops = [i \in Requests |-> 0]
    /\ backendCalls = [i \in Requests |-> 0]
    /\ InitGuard

NextRoute ==
    \/ EnterMain
    \/ \E i \in Requests : RunnerStart(i)
    \/ \E i \in Requests : GuardrailRuns(i)
    \/ \E i \in Requests : BackendTurn(i)
    \/ \E i \in Requests : RunnerEnd(i)
SpecRoute == InitRoute /\ [][NextRoute]_vars

(***************************************************************************)
(* Properties of routed requests.                                          *)
(***************************************************************************)
\* the entries main printed for request i
PrintedOf(i) == {k \in 1..Len(printed) : printed[k].req = i}

\* some trigger phrase occurs in the text of request i
InputHasPhrase(i) ==
    \E k \in 1..Len(Keywords) : Occurs(reqInput[i], Keywords[k])

\* C11: a request whose input the guardrail blocks ends in a blocked outcome,
\* told apart from a final answer and from a failure, that carries the
\* guardrail's verdict (blocked flag and reasoning); it never ends as a
\* success.
C11_BlockedIsDistinct ==
    \A i \in Requests :
        /\ (verdict[i].tripwire_triggered /\ outcome[i] # "none")
              => outcome[i] = "blocked"
        /\ (InputHasPhrase(i) /\ outcome[i] # "none") => outcome[i] = "blocked"
        /\ outcome[i] = "blocked" =>
              /\ InputHasPhrase(i)
              /\ \E k \in PrintedOf(i) :
                    /\ printed[k].kind = "blocked"
                    /\ printed[k].verdict.tripwire_triggered
                    /\ printed[k].verdict.output_info.is_homework
                    /\ printed[k].verdict.output_info.reasoning =
                          MatchPrefix \o Join(OccurringPhrases(reqInput[i]), CommaSpace)
              /\ \A k \in PrintedOf(i) : printed[k].kind = "blocked"
              /\ (mainPc = "crashed" => \E j \in Requests : outcome[j] = "failed")

\* the second request was blocked after the first ended with a final answer
C11_Witness ==
    /\ outcome[1] = "final"
    /\ outcome[2] = "blocked"
    /\ mainPc = "done"
    /\ Len(printed) = 2

\* what a failed request leaves: main has been left by the exception, nothing
\* was printed for the request, and no Runner.run was started after it
C13_FailureSurfaced ==
    \A i \in Requests :
        outcome[i] = "failed" =>
            /\ mainPc = "crashed"
            /\ PrintedOf(i) = {}
            /\ runnerCalls = i
            /\ ~verdict[i].tripwire_triggered
            /\ \A j \in Requests : j > i => outcome[j] = "none"

\* C13: a failed backend call of a routed request is surfaced to the caller
\* as a failure of that request, neither swallowed nor turned into a success
\* or a blocked outcome, and no further backend call or Runner.run is made
\* for it.
C13_BackendFailureNotRetried ==
    /\ []C13_FailureSurfaced
    /\ [][(turn = "failed" \/ \E i \in Requests : outcome[i] = "failed")
             => (backendCalls' = backendCalls /\ runnerCalls' = runnerCalls)]_vars
    /\ [][(turn = "failed" /\ turn' # "failed")
             => \E i \in Requests :
                   /\ mainPc = Awaiting(i)
                   /\ outcome'[i] = "failed"
                   /\ mainPc' = "crashed"]_vars

\* the first request failed at its second backend call, after a handoff
C13_Witness ==
    /\ outcome[1] = "failed"
    /\ backendCalls[1] = 2
    /\ hops[1] = 1
    /\ mainPc = "crashed"

\* the position of agent a in the order of definition
Position(a) == CHOOSE k \in 1..Len(AgentOrder) : AgentOrder[k] = a

\* C14: every handoff edge points to an agent defined before the agent that
\* names it; only the triage agent has handoffs (History Tutor, Math Tutor,
\* Local Tutor, each without handoffs); so a routing chain from the triage
\* agent makes at most one handoff, after which only a final answer or a
\* failure can follow.
C14_AtMostOneHandoff ==
    /\ \A a \in Agents : \A t \in HandoffTargets(a) :
          t \in Agents /\ Position(t) < Position(a)
    /\ {a \in Agents : Len(HandoffsOf(a)) > 0} = {TriageAgent}
    /\ HandoffsOf(TriageAgent) = <<HistoryTutor, MathTutor, LocalTutor>>
    /\ \A t \in {HistoryTutor, MathTutor, LocalTutor} : HandoffsOf(t) = <<>>
    /\ \A i \in Requests :
          /\ hops[i] <= 1
          /\ backendCalls[i] <= 2
          /\ (mainPc = Awaiting(i) /\ hops[i] = 0) => cur = TriageAgent
          /\ (mainPc = Awaiting(i) /\ hops[i] = 1) =>
                /\ cur \in {HistoryTutor, MathTutor, LocalTutor}
                /\ HandoffTargets(cur) = {}

\* a request that ended with a final answer after one handoff
C14_Witness ==
    /\ outcome[1] = "final"
    /\ hops[1] = 1
    /\ backendCalls[1] = 2

\* C15: the second request is started only after the first has finished, it
\* is started whether the first ended in a final answer or in a guardrail
\* block, and its guardrail verdict depends on its own input only.
C15_RequestsIndependent ==
    /\ (runnerCalls = 2 \/ mainPc \in {"run2", "await2", "done"})
          => outcome[1] \in {"final", "blocked"}
    /\ outcome[1] \in {"final", "blocked"} =>
          /\ mainPc \in {"run2", "await2", "done", "crashed"}
          /\ runnerCalls = 1 => mainPc = "run2"
          /\ mainPc = "crashed" => outcome[2] = "failed"
    /\ verdict[2] # NoOutput =>
          /\ verdict[2].tripwire_triggered <=> InputHasPhrase(2)
          /\ verdict[2].output_info.reasoning =
                IF InputHasPhrase(2)
                THEN MatchPrefix \o Join(OccurringPhrases(reqInput[2]), CommaSpace)
                ELSE NoMatchText

\* the second request got a final answer after the first was blocked
C15_Witness ==
    /\ outcome[1] = "blocked"
    /\ outcome[2] = "final"
    /\ ~verdict[2].tripwire_triggered

(***************************************************************************)
(* Properties of the program.                                              *)
(***************************************************************************)
\* C2: no Runner.run is issued before start_ollama_if_needed has returned
\* normally; if it raises, no routed request is ever started.
C2_NoRunBeforeBootstrap ==
    /\ (runnerCalls > 0 \/ mainPc \in {"configured", "run1", "await1", "run2",
                                       "await2", "done"})
            => pc[ModuleCaller] = "returned"
    /\ pc[ModuleCaller] = "raised" =>
            /\ runnerCalls = 0
            /\ mainPc \in {"bootstrap", "crashed"}
            /\ outcome = <<"none", "none">>

\* both requests were started, after a bootstrap that launched the server and
\* polled more than once
C2_Witness ==
    /\ runnerCalls = 2
    /\ pc[ModuleCaller] = "returned"
    /\ Launched(ModuleCaller)
    /\ polls[ModuleCaller] >= 2

====
